---------------------------- MODULE Spec2Model ----------------------------
(***************************************************************************)
(* Model of the monthly meal planner (src/main.py): the storage adapter    *)
(* (load_all / save_all and the legacy loaders), the plan entry codec      *)
(* (_apply_meal / _select_day / _repopulate_rows_from_plan), the calendar  *)
(* grid (_refresh_month), the slot handlers and the spreadsheet export.    *)
(*                                                                         *)
(* Text is a sequence of one-character strings.  The characters that the   *)
(* program treats specially are " " and "\n" (white space, stripped; "\n" *)
(* is also the line break of a calendar button), "," (item separator) and  *)
(* "|" (part of the category separator " | ").  Every other character is   *)
(* an ordinary letter.                                                     *)
(* Korean names of the source are romanised (TLA+ strings are ASCII).      *)
(***************************************************************************)
EXTENDS Integers, Sequences, FiniteSets, TLC

VARIABLES
    \* ---- MealPlannerApp (src/main.py:243-259, 307-308)
    menus,               \* self.menus: category -> sequence of names
    plans,               \* self.plans: month key -> (day -> encoded line)
    day_slots,           \* self.day_slots: month key -> (day -> stored configuration)
    slots_per_category,  \* self.slots_per_category: category -> row count
    current_year,        \* self.current_year
    current_month,       \* self.current_month
    selected_day,        \* self.selected_day (NoDay is None)
    category_vars,       \* self.category_vars: <<category, slot>> -> text of the row
    day_buttons,         \* self.day_buttons: day -> grid place and label of its button
    panel_shown,         \* whether right_panel is gridded
    ws,                  \* the worksheet written by the last export: <<row, col>> -> value
    \* ---- files and module globals (src/main.py:42-52)
    data_file,           \* DATA_FILE  (data.json)
    menus_file,          \* MENUS_FILE (menus.json)
    plan_file,           \* PLAN_FILE  (meal_plan.json)
    DEFAULT_MENUS,       \* the module level dictionary of built-in lists
    loaded,              \* outcome of the call of load_all under study
    \* ---- plan entry codec under study
    line,                \* an encoded plan entry
    shown,               \* rows produced by decoding `line`
    pc,                  \* position of the scenario of the specification at hand
    \* ---- MenuEditWindow (src/main.py:126-134)
    win,                 \* the menu edit window: open or not, its menus, its selected_entries
    \* ---- history
    visit                \* what happened to the day selected before the current one

appVars  == <<menus, plans, day_slots, slots_per_category, current_year,
              current_month, selected_day, category_vars, day_buttons,
              panel_shown>>
fileVars == <<data_file, menus_file, plan_file>>
loadVars == <<DEFAULT_MENUS, loaded>>
codecVars == <<line, shown>>
vars == <<appVars, ws, fileVars, loadVars, codecVars, pc, win, visit>>

-----------------------------------------------------------------------------
(* Text: Python str operations used by the program.                        *)

\* str.startswith
StartsWith(s, p) == Len(s) >= Len(p) /\ SubSeq(s, 1, Len(p)) = p

\* the white space among the symbols of a text
WhiteSpace == {" ", "\n"}

RECURSIVE LStrip(_)
LStrip(s) == IF s # <<>> /\ Head(s) \in WhiteSpace THEN LStrip(Tail(s)) ELSE s

RECURSIVE RStrip(_)
RStrip(s) ==
    IF s # <<>> /\ s[Len(s)] \in WhiteSpace
    THEN RStrip(SubSeq(s, 1, Len(s) - 1)) ELSE s

\* str.strip(): leading and trailing white space removed
Strip(s) == RStrip(LStrip(s))

RECURSIVE SplitAcc(_, _, _)
SplitAcc(s, sep, cur) ==
    IF s = <<>> THEN <<cur>>
    ELSE IF StartsWith(s, sep)
         THEN <<cur>> \o SplitAcc(SubSeq(s, Len(sep) + 1, Len(s)), sep, <<>>)
         ELSE SplitAcc(Tail(s), sep, Append(cur, Head(s)))

\* str.split(sep): the pieces between the non-overlapping occurrences of sep,
\* found left to right; never an empty list
Split(s, sep) == SplitAcc(s, sep, <<>>)

RECURSIVE Join(_, _)
\* sep.join(parts)
Join(parts, sep) ==
    IF parts = <<>> THEN <<>>
    ELSE IF Len(parts) = 1 THEN parts[1]
    ELSE parts[1] \o sep \o Join(Tail(parts), sep)

RECURSIVE Replace(_, _, _)
\* str.replace(old, new), old not empty
Replace(s, old, new) ==
    IF s = <<>> THEN <<>>
    ELSE IF StartsWith(s, old)
         THEN new \o Replace(SubSeq(s, Len(old) + 1, Len(s)), old, new)
         ELSE <<Head(s)>> \o Replace(Tail(s), old, new)

\* the separators of a plan entry
CatSep  == <<" ", "|", " ">>
ItemSep == <<",">>
NewLine == <<"\n">>

RECURSIVE MapStrip(_)
\* [p.strip() for p in parts]
MapStrip(parts) ==
    IF parts = <<>> THEN <<>> ELSE <<Strip(Head(parts))>> \o MapStrip(Tail(parts))

RECURSIVE NonEmptyStripped(_)
\* [s.strip() for s in parts if s.strip()]
NonEmptyStripped(parts) ==
    IF parts = <<>> THEN <<>>
    ELSE IF Strip(Head(parts)) # <<>>
         THEN <<Strip(Head(parts))>> \o NonEmptyStripped(Tail(parts))
         ELSE NonEmptyStripped(Tail(parts))

\* [x] * n
Repeat(x, n) == [i \in 1..n |-> x]

Max(a, b) == IF a >= b THEN a ELSE b

\* seq[:n]
Take(s, n) == SubSeq(s, 1, IF Len(s) < n THEN Len(s) ELSE n)

-----------------------------------------------------------------------------
(* Module constants.                                                       *)

\* CATEGORIES: "주식", "국/스프", "반찬", "기타"
CATEGORIES == <<"jusik", "guk_soup", "banchan", "gita">>
CatSet == {CATEGORIES[i] : i \in 1..Len(CATEGORIES)}

\* selected_day = None
NoDay == 0

\* a month key f"{year}-{month:02d}" is modelled by the pair it formats
MonthKey(y, m) == <<y, m>>

\* _default_slots()
DefaultSlots == [c \in CatSet |-> 1]

-----------------------------------------------------------------------------
(* calendar.monthrange of the standard library.                            *)

IsLeap(y) == (y % 4 = 0 /\ y % 100 # 0) \/ y % 400 = 0

DaysInMonth(y, m) ==
    CASE m = 2 -> IF IsLeap(y) THEN 29 ELSE 28
      [] m \in {4, 6, 9, 11} -> 30
      [] OTHER -> 31

RECURSIVE DaysBeforeMonth(_, _)
DaysBeforeMonth(y, m) ==
    IF m = 1 THEN 0 ELSE DaysBeforeMonth(y, m - 1) + DaysInMonth(y, m - 1)

\* datetime.date(y, m, d).toordinal()
Ordinal(y, m, d) ==
    LET p == y - 1
    IN  p * 365 + (p \div 4) - (p \div 100) + (p \div 400)
        + DaysBeforeMonth(y, m) + d

\* calendar.weekday: Monday is 0, Sunday is 6
Weekday(y, m, d) == (Ordinal(y, m, d) + 6) % 7

\* monthrange(year, month) == (weekday of day 1, number of days)
monthrange(y, m) == <<Weekday(y, m, 1), DaysInMonth(y, m)>>

-----------------------------------------------------------------------------
(* Dictionaries: a dict is a function on its key set.                      *)

EmptyDict == <<>>

\* d.get(k, default)
Get(d, k, default) == IF k \in DOMAIN d THEN d[k] ELSE default

\* d[k] = v
Put(d, k, v) == [x \in (DOMAIN d) \cup {k} |-> IF x = k THEN v ELSE d[x]]

\* self.plans.get(key, {}).get(str(day), "")
Entry(ps, key, day) == Get(Get(ps, key, EmptyDict), day, <<>>)

\* self._month_key()
_month_key == MonthKey(current_year, current_month)

-----------------------------------------------------------------------------
(* Plan entry codec.                                                       *)

\* the keys (cat, slot) created by _build_category_rows for a row count
RowKeys(slots) == UNION {{<<c, s>> : s \in 0..(slots[c] - 1)} : c \in CatSet}

\* the stripped non-empty row values of one category, in slot order
\* (the inner loop of _apply_meal)
CategoryVals(cv, slots, cat) ==
    NonEmptyStripped([i \in 1..slots[cat] |->
        IF <<cat, i - 1>> \in DOMAIN cv THEN cv[<<cat, i - 1>>] ELSE <<>>])

\* the line _apply_meal builds from the rows
EncodeEntry(cv, slots) ==
    Join([i \in 1..Len(CATEGORIES) |->
            Join(CategoryVals(cv, slots, CATEGORIES[i]), ItemSep)], CatSep)

\* a decoder that pads a short line at its end only
PartsBackPadded(current) ==
    LET raw == MapStrip(Split(current, CatSep))
        n   == Len(CATEGORIES)
    IN  Take(raw \o Repeat(<<>>, Max(0, n - Len(raw))), n)

\* the category segments _select_day reads from a stored line
PartsSelect(current) ==
    LET raw == MapStrip(Split(current, CatSep))
        n   == Len(CATEGORIES)
    IN  IF Len(raw) < n
        THEN Take(<< <<>> >> \o raw \o Repeat(<<>>, Max(0, n - Len(raw) - 1)), n)
        ELSE Take(raw, n)

\* the category segments _repopulate_rows_from_plan reads from a stored line
PartsRepopulate(current) ==
    LET raw == MapStrip(Split(current, CatSep))
        n   == Len(CATEGORIES)
    IN  IF Len(raw) < n
        THEN Take(<< <<>> >> \o raw \o Repeat(<<>>, Max(0, n - Len(raw) - 1)), n)
        ELSE Take(raw, n)

\* slot_vals of one segment: its stripped non-empty items, or [""]
SlotVals(part) ==
    LET v == NonEmptyStripped(Split(Strip(part), ItemSep))
    IN  IF v = <<>> THEN << <<>> >> ELSE v

CatIndex(c) == CHOOSE i \in 1..Len(CATEGORIES) : CATEGORIES[i] = c

\* the rows after the loop "for i, cat in enumerate(CATEGORIES)" has set them
FillRows(cv, slots, parts) ==
    [k \in DOMAIN cv |->
        IF k[2] < slots[k[1]]
        THEN LET sv == SlotVals(parts[CatIndex(k[1])])
             IN  IF k[2] < Len(sv) THEN sv[k[2] + 1] ELSE <<>>
        ELSE cv[k]]

\* _build_category_rows: one empty row per (category, slot)
BuildRows(slots) == [k \in RowKeys(slots) |-> <<>>]

-----------------------------------------------------------------------------
(* JSON values as json.load returns them, tagged by their Python type.     *)

JNull     == [t |-> "null"]
JNum(n)   == [t |-> "num", num |-> n]
JStr(s)   == [t |-> "str", str |-> s]
JList(xs) == [t |-> "list", items |-> xs]
JObj(f)   == [t |-> "obj", fields |-> f]

\* bool(v) of a JSON value
Truthy(v) ==
    CASE v.t = "null" -> FALSE
      [] v.t = "num"  -> v.num # 0
      [] v.t = "str"  -> v.str # <<>>
      [] v.t = "list" -> v.items # <<>>
      [] v.t = "obj"  -> DOMAIN v.fields # {}

\* isinstance(v, dict)
IsDict(v) == v.t = "obj"

-----------------------------------------------------------------------------
(* MealPlannerApp: the handlers.  Each operator below is the state after   *)
(* the method of the same name, given the state before it.                 *)

\* the label lines of a day button: meal_text.replace(" | ", "\n").replace(",", "\n")
MealDisplay(meal_text) == Replace(Replace(meal_text, CatSep, NewLine), ItemSep, NewLine)

\* the buttons _refresh_month grids for a month: day -> row, column and label
MonthButtons(y, m, ps) ==
    LET mr            == monthrange(y, m)
        first_weekday == mr[1]
        num_days      == mr[2]
        plan          == Get(ps, MonthKey(y, m), EmptyDict)
    IN  [day \in 1..num_days |->
            LET pos == first_weekday + (day - 1)
            IN  [row  |-> 1 + (pos \div 7),
                 col  |-> pos % 7,
                 text |-> MealDisplay(Get(plan, day, <<>>))]]

\* what day_slots.get(key, {}).get(day_str) returns when there is no entry
NoConfig == JNull

\* LoadSlots without the floor max(1, ...): stored counts taken as they are
LoadSlotsUnfloored(saved) ==
    IF Truthy(saved) /\ IsDict(saved)
    THEN [c \in CatSet |-> Get(saved.fields, c, JNum(1)).num]
    ELSE DefaultSlots

\* the row counts _select_day loads from a stored configuration:
\* "if saved and isinstance(saved, dict)" then max(1, int(saved.get(c, 1)))
LoadSlots(saved) ==
    IF Truthy(saved) /\ IsDict(saved)
    THEN [c \in CatSet |-> Max(1, Get(saved.fields, c, JNum(1)).num)]
    ELSE DefaultSlots

\* the configuration _save_day_slots stores
StoredConfig(slots) == JObj([c \in CatSet |-> JNum(slots[c])])

\* _refresh_month: buttons rebuilt, selection cleared, rows blanked, panel hidden
_refresh_month(y, m) ==
    /\ day_buttons' = MonthButtons(y, m, plans)
    /\ selected_day' = NoDay
    /\ category_vars' = [k \in DOMAIN category_vars |-> <<>>]
    /\ panel_shown' = FALSE

\* an _apply_meal without its first test: it writes with no day selected
AppliedPlansUnguarded(ps, cv, slots, key, day) ==
    Put(ps, key, Put(Get(ps, key, EmptyDict), day, EncodeEntry(cv, slots)))

\* _apply_meal as a function of the state: the plans after it
AppliedPlans(ps, cv, slots, key, day) ==
    IF day = NoDay THEN ps
    ELSE Put(ps, key, Put(Get(ps, key, EmptyDict), day, EncodeEntry(cv, slots)))

\* _apply_meal: its effect on the label of the selected day's button
AppliedButtons(btns, cv, slots, day) ==
    IF day = NoDay THEN btns
    ELSE [btns EXCEPT ![day].text = MealDisplay(EncodeEntry(cv, slots))]

\* _save_day_slots as a function of the state: day_slots after it
SavedDaySlots(ds, slots, key, day) ==
    IF day = NoDay THEN ds
    ELSE Put(ds, key, Put(Get(ds, key, EmptyDict), day, StoredConfig(slots)))

\* _repopulate_rows_from_plan on freshly built rows
Repopulated(cv, ps, slots, key, day) ==
    IF day = NoDay THEN cv
    ELSE LET current == Entry(ps, key, day)
         IN  IF current = <<>> THEN cv
             ELSE FillRows(cv, slots, PartsRepopulate(current))

\* a save_all called without its third argument: day_slots=None becomes {}
SaveAllNoSlots(ms, ps, ds) ==
    JObj([f \in {"menus", "plans", "day_slots"} |->
        CASE f = "menus" ->
                JObj([c \in DOMAIN ms |->
                        JList([i \in 1..Len(ms[c]) |-> JStr(ms[c][i])])])
          [] f = "plans" ->
                JObj([k \in DOMAIN ps |->
                        JObj([d \in DOMAIN ps[k] |-> JStr(ps[k][d])])])
          [] f = "day_slots" -> JObj(EmptyDict)])

\* save_all(menus, plans, day_slots): the document json.dump writes
save_all(ms, ps, ds) ==
    JObj([f \in {"menus", "plans", "day_slots"} |->
        CASE f = "menus" ->
                JObj([c \in DOMAIN ms |->
                        JList([i \in 1..Len(ms[c]) |-> JStr(ms[c][i])])])
          [] f = "plans" ->
                JObj([k \in DOMAIN ps |->
                        JObj([d \in DOMAIN ps[k] |-> JStr(ps[k][d])])])
          [] f = "day_slots" ->
                JObj([k \in DOMAIN ds |-> JObj(ds[k])])])

\* a file that holds a JSON document
FileJson(doc) == [kind |-> "json", doc |-> doc]

\* a _select_day that first applies the rows of the day being left
SelectDayApplying(day) ==
    /\ IF selected_day = day
       THEN /\ selected_day' = NoDay
            /\ panel_shown' = FALSE
            /\ UNCHANGED <<slots_per_category, category_vars, plans>>
       ELSE LET key     == _month_key
                saved   == Get(Get(day_slots, key, EmptyDict), day, NoConfig)
                slots   == LoadSlots(saved)
                rows    == BuildRows(slots)
                ps1     == AppliedPlans(plans, category_vars, slots_per_category,
                                        key, selected_day)
                current == Entry(ps1, key, day)
            IN  /\ selected_day' = day
                /\ panel_shown' = TRUE
                /\ slots_per_category' = slots
                /\ plans' = ps1
                /\ category_vars' =
                       IF current # <<>>
                       THEN FillRows(rows, slots, PartsSelect(current))
                       ELSE [k \in DOMAIN rows |-> <<>>]
    /\ UNCHANGED <<menus, day_slots, current_year, current_month, day_buttons>>

\* _select_day(day)
_select_day(day) ==
    /\ IF selected_day = day
       THEN \* the same day clicked again: _hide_right_panel
            /\ selected_day' = NoDay
            /\ panel_shown' = FALSE
            /\ UNCHANGED <<slots_per_category, category_vars>>
       ELSE LET key     == _month_key
                saved   == Get(Get(day_slots, key, EmptyDict), day, NoConfig)
                slots   == LoadSlots(saved)
                rows    == BuildRows(slots)
                current == Entry(plans, key, day)
            IN  /\ selected_day' = day
                /\ panel_shown' = TRUE
                /\ slots_per_category' = slots
                /\ category_vars' =
                       IF current # <<>>
                       THEN FillRows(rows, slots, PartsSelect(current))
                       ELSE [k \in DOMAIN rows |-> <<>>]
    /\ UNCHANGED <<menus, plans, day_slots, current_year, current_month,
                   day_buttons>>

\* the common body of _add_slot and _remove_slot once the new count is known
ChangeSlots(cat, count) ==
    LET key    == _month_key
        day    == selected_day
        ps1    == AppliedPlans(plans, category_vars, slots_per_category, key, day)
        slots1 == [slots_per_category EXCEPT ![cat] = count]
    IN  /\ plans' = ps1
        /\ day_buttons' =
               AppliedButtons(day_buttons, category_vars, slots_per_category, day)
        /\ slots_per_category' = slots1
        /\ day_slots' = SavedDaySlots(day_slots, slots1, key, day)
        /\ category_vars' = Repopulated(BuildRows(slots1), ps1, slots1, key, day)
        /\ UNCHANGED <<menus, current_year, current_month, selected_day,
                       panel_shown>>

\* _add_slot(cat)
_add_slot(cat) == ChangeSlots(cat, slots_per_category[cat] + 1)

\* _remove_slot(cat)
_remove_slot(cat) ==
    IF slots_per_category[cat] <= 1
    THEN UNCHANGED appVars
    ELSE ChangeSlots(cat, slots_per_category[cat] - 1)

\* _save: apply, store the row counts, write data.json
_save ==
    LET key == _month_key
        day == selected_day
    IN  /\ plans' = AppliedPlans(plans, category_vars, slots_per_category, key, day)
        /\ day_buttons' =
               AppliedButtons(day_buttons, category_vars, slots_per_category, day)
        /\ day_slots' = SavedDaySlots(day_slots, slots_per_category, key, day)
        /\ data_file' = FileJson(save_all(menus, plans', day_slots'))
        /\ UNCHANGED <<menus, slots_per_category, current_year, current_month,
                       selected_day, category_vars, panel_shown>>

\* _prev_month
_prev_month ==
    /\ IF current_month = 1
       THEN current_month' = 12 /\ current_year' = current_year - 1
       ELSE current_month' = current_month - 1 /\ current_year' = current_year
    /\ _refresh_month(current_year', current_month')
    /\ UNCHANGED <<menus, plans, day_slots, slots_per_category>>

\* _next_month
_next_month ==
    /\ IF current_month = 12
       THEN current_month' = 1 /\ current_year' = current_year + 1
       ELSE current_month' = current_month + 1 /\ current_year' = current_year
    /\ _refresh_month(current_year', current_month')
    /\ UNCHANGED <<menus, plans, day_slots, slots_per_category>>

\* a combo box that writes the plan entry as soon as its row changes
SetRowApplying(k, v) ==
    /\ category_vars' = [category_vars EXCEPT ![k] = v]
    /\ plans' = AppliedPlans(plans, category_vars', slots_per_category,
                             _month_key, selected_day)
    /\ UNCHANGED <<menus, day_slots, slots_per_category, current_year,
                   current_month, selected_day, day_buttons, panel_shown>>

\* the user types or picks a value in the combo box of a row
SetRow(k, v) ==
    /\ category_vars' = [category_vars EXCEPT ![k] = v]
    /\ UNCHANGED <<menus, plans, day_slots, slots_per_category, current_year,
                   current_month, selected_day, day_buttons, panel_shown>>

-----------------------------------------------------------------------------
(* _export_excel: the worksheet.  A cell value is a day number (num) or a  *)
(* text; the empty string and an unset value are the blank cell.           *)

Cell(n, t) == [num |-> n, text |-> t]
Blank == Cell(0, <<>>)

RECURSIVE FlattenItems(_)
\* the two nested loops of plan_to_items over the parts of a line
FlattenItems(parts) ==
    IF parts = <<>> THEN <<>>
    ELSE NonEmptyStripped(Split(Head(parts), ItemSep)) \o FlattenItems(Tail(parts))

\* plan_to_items(line)
plan_to_items(ln) ==
    IF ln = <<>> \/ Strip(ln) = <<>> THEN <<>>
    ELSE FlattenItems(Split(ln, CatSep))

\* week_days of one week: for each of the 7 columns the day number (NoDay
\* outside the month) and the items of that day
WeekDays(plan, first_weekday, num_days, week_row) ==
    [i \in 1..7 |->
        LET pos     == week_row * 7 + (i - 1)
            day_num == IF pos >= first_weekday /\ pos < first_weekday + num_days
                       THEN pos - first_weekday + 1 ELSE NoDay
        IN  [day_num |-> day_num,
             items   |-> IF day_num # NoDay
                         THEN plan_to_items(Get(plan, day_num, <<>>))
                         ELSE <<>>]]

\* max(len(items) for _, items in week_days)
MaxItems(week_days) ==
    LET lens == {Len(week_days[i].items) : i \in 1..7}
    IN  CHOOSE n \in lens : \A x \in lens : x <= n

\* a menu_rows that is always 3
MenuRowsFixed(week_days) == Max(3, 0)

\* menu_rows = max(3, ...)
MenuRows(week_days) == Max(3, MaxItems(week_days))

\* the cells written for one week whose date row is base_row
WeekCells(week_days, menu_rows, base_row) ==
    [rc \in (base_row..(base_row + menu_rows)) \X (1..7) |->
        LET wd == week_days[rc[2]]
            r  == rc[1] - base_row - 1
        IN  IF rc[1] = base_row
            THEN Cell(wd.day_num, <<>>)
            ELSE IF r < Len(wd.items) THEN Cell(0, wd.items[r + 1]) ELSE Blank]

RECURSIVE WeekBlocks(_, _, _, _, _, _)
\* the loop "for week_row in range(num_weeks)" from week_row on
WeekBlocks(plan, first_weekday, num_days, week_row, num_weeks, current_row) ==
    IF week_row >= num_weeks THEN EmptyDict
    ELSE LET week_days == WeekDays(plan, first_weekday, num_days, week_row)
             menu_rows == MenuRows(week_days)
         IN  WeekCells(week_days, menu_rows, current_row) @@
             WeekBlocks(plan, first_weekday, num_days, week_row + 1, num_weeks,
                        current_row + 1 + menu_rows)

\* week_headers: "일", "월", "화", "수", "목", "금", "토"
week_headers == <<"il", "wol", "hwa", "su", "mok", "geum", "to">>

\* rows 1 and 2: the title in column 4 and the weekday names
HeaderCells(y, m) ==
    [rc \in (1..2) \X (1..7) |->
        IF rc[1] = 2 THEN Cell(0, <<week_headers[rc[2]]>>)
        ELSE IF rc[2] = 4 THEN Cell(y * 100 + m, <<"nyeon_wol">>)
        ELSE Blank]

\* num_weeks of the export
NumWeeks(first_weekday, num_days) == Max(1, (first_weekday + num_days + 6) \div 7)

\* the whole worksheet of a month
ExportSheet(ps, y, m) ==
    LET mr == monthrange(y, m)
    IN  HeaderCells(y, m) @@
        WeekBlocks(Get(ps, MonthKey(y, m), EmptyDict), mr[1], mr[2], 0,
                   NumWeeks(mr[1], mr[2]), 3)

\* _export_excel
_export_excel ==
    /\ ws' = ExportSheet(plans, current_year, current_month)
    /\ UNCHANGED appVars

-----------------------------------------------------------------------------
(* Storage adapter: load_all and the legacy loaders.                       *)

\* a one-word text
W(name) == <<name>>

\* DEFAULT_MENUS as the module defines it (names romanised)
DefaultMenus0 ==
    [c \in CatSet |->
        CASE c = "jusik" ->
                <<W("bap"), W("hyeonmibap"), W("japgokbap"), W("juk"), W("ramyeon"),
                  W("jjajangmyeon"), W("kalguksu"), W("bibimbap"), W("deopbap"),
                  W("gukbap")>>
          [] c = "guk_soup" ->
                <<W("miyeokguk"), W("doenjangguk"), W("kimchijjigae"),
                  W("doenjangjjigae"), W("sundubujjigae"), W("baechuguk"),
                  W("kongnamulguk"), W("udong"), W("manduguk"), W("seupeu")>>
          [] c = "banchan" ->
                <<W("kimchi"), W("namul"), W("gyeranmari"), W("jeyukbokkeum"),
                  W("myeolchibokkeum"), W("gamjajorim"), W("dubujorim"),
                  W("sigeumchinamul"), W("kkaennipji"), W("oimuchim")>>
          [] c = "gita" ->
                <<W("saelleodeu"), W("gwail"), W("yujepum"), W("gwaja"), W("tteok"),
                  W("gimbap"), W("samgakgimbap"), W("dosirak"), W("oesik"),
                  W("gita")>>]

\* the JSON list of a list of names
JNames(names) == JList([i \in 1..Len(names) |-> JStr(names[i])])

\* file states
FileAbsent     == [kind |-> "absent"]       \* exists() is false
FileUnreadable == [kind |-> "unreadable"]   \* open raises IOError
FileMalformed  == [kind |-> "malformed"]    \* json.load raises JSONDecodeError

\* a DefaultList that hands out the built-in list itself, not a copy
DefaultListShared(defaults, c) == [list |-> JNames(defaults[c]), alias |-> TRUE]

\* DEFAULT_MENUS[c].copy() / list(items): a new list object with the same
\* items; `alias` tells whether the object is the built-in list itself
DefaultList(defaults, c) == [list |-> JNames(defaults[c]), alias |-> FALSE]

\* a FillDefaults that completes the missing categories only, not the empty ones
FillMissingOnly(d, defaults) ==
    LET missing == {c \in CatSet : c \notin DOMAIN d}
    IN  [fields |-> [k \in (DOMAIN d) \cup CatSet |->
                        IF k \in missing THEN DefaultList(defaults, k).list
                        ELSE d[k]],
         shared |-> {c \in missing : DefaultList(defaults, c).alias}]

\* "for c in CATEGORIES: if c not in d or not d[c]: d[c] = DEFAULT_MENUS[c].copy()"
\* on a dict d: the dict afterwards and the categories that hold an alias
FillDefaults(d, defaults) ==
    LET missing == {c \in CatSet : c \notin DOMAIN d \/ ~Truthy(d[c])}
    IN  [fields |-> [k \in (DOMAIN d) \cup CatSet |->
                        IF k \in missing THEN DefaultList(defaults, k).list
                        ELSE d[k]],
         shared |-> {c \in missing : DefaultList(defaults, c).alias}]

\* outcomes of a loader
Returned(ms, ps, ds, sh) ==
    [status |-> "ok", error |-> "", menus |-> ms, plans |-> ps,
     day_slots |-> ds, shared |-> sh]
Raised(e) ==
    [status |-> "raise", error |-> e, menus |-> JNull, plans |-> JNull,
     day_slots |-> JNull, shared |-> {}]
NotLoaded ==
    [status |-> "none", error |-> "", menus |-> JNull, plans |-> JNull,
     day_slots |-> JNull, shared |-> {}]

\* load_menus_legacy()
load_menus_legacy(mf, defaults) ==
    IF mf.kind = "json"
    THEN IF IsDict(mf.doc)
         THEN LET filled == FillDefaults(mf.doc.fields, defaults)
              IN  Returned(JObj(filled.fields), JNull, JNull, filled.shared)
         ELSE \* "cat not in data" or "data[cat] = ..." on a value that is no dict
              Raised("TypeError")
    ELSE \* no file, or IOError / JSONDecodeError swallowed
         Returned(JObj([c \in CatSet |-> DefaultList(defaults, c).list]), JNull, JNull,
                  {c \in CatSet : DefaultList(defaults, c).alias})

\* load_plan_legacy()
load_plan_legacy(pf) ==
    IF pf.kind = "json" THEN pf.doc
    ELSE JObj([k \in {"plans"} |-> JObj(EmptyDict)])

\* lines 83-86 of load_all: the legacy files
load_legacy(mf, pf, defaults) ==
    LET ms        == load_menus_legacy(mf, defaults)
        plan_data == load_plan_legacy(pf)
    IN  IF ms.status = "raise" THEN ms
        ELSE IF ~IsDict(plan_data) THEN Raised("AttributeError")
        ELSE Returned(ms.menus, Get(plan_data.fields, "plans", JObj(EmptyDict)),
                      JObj(EmptyDict), ms.shared)

\* load_all()
load_all(df, mf, pf, defaults) ==
    IF df.kind = "json"
    THEN IF ~IsDict(df.doc)
         THEN Raised("AttributeError")            \* data.get on a non-dict
         ELSE LET ms == Get(df.doc.fields, "menus", JNull)
                  ps == Get(df.doc.fields, "plans", JObj(EmptyDict))
                  d0 == Get(df.doc.fields, "day_slots", JObj(EmptyDict))
                  ds == IF IsDict(d0) THEN d0 ELSE JObj(EmptyDict)
              IN  IF Truthy(ms)
                  THEN IF IsDict(ms)
                       THEN LET filled == FillDefaults(ms.fields, defaults)
                            IN  Returned(JObj(filled.fields), ps, ds, filled.shared)
                       ELSE Raised("TypeError")   \* menus[c] = ... on a non-dict
                  ELSE load_legacy(mf, pf, defaults)
    ELSE load_legacy(mf, pf, defaults)

-----------------------------------------------------------------------------
(* MenuEditWindow: a modal window that edits a copy of the catalog.  A     *)
(* selected entry of None is the empty text (both fail "if not name").     *)

\* no window
WinClosed ==
    [open |-> FALSE, menus |-> [c \in CatSet |-> <<>>],
     selected_entries |-> [c \in CatSet |-> <<>>]]

\* name in names
InList(name, names) == \E i \in 1..Len(names) : names[i] = name

\* list.remove(name): the first occurrence goes
RemoveFirst(names, name) ==
    LET i == CHOOSE j \in 1..Len(names) :
                 names[j] = name /\ \A h \in 1..(j - 1) : names[h] # name
    IN  SubSeq(names, 1, i - 1) \o SubSeq(names, i + 1, Len(names))

\* MenuEditWindow.__init__: {c: list(menus.get(c, [])) for c in self.categories}
WinOpened(ms) ==
    [open |-> TRUE, menus |-> [c \in CatSet |-> Get(ms, c, <<>>)],
     selected_entries |-> [c \in CatSet |-> <<>>]]

\* MenuEditWindow._select(cat, name)
WinSelect(w, cat, name) ==
    [w EXCEPT !.selected_entries[cat] = IF @ = name THEN <<>> ELSE name]

\* MenuEditWindow._add(cat) when the entry field holds text
WinAdd(w, cat, text) ==
    LET name == Strip(text)
    IN  IF name = <<>> THEN w
        ELSE IF InList(name, w.menus[cat]) THEN w
        ELSE [w EXCEPT !.menus[cat] = Append(@, name),
                       !.selected_entries[cat] = name]

\* MenuEditWindow._delete(cat)
WinDelete(w, cat) ==
    LET name == w.selected_entries[cat]
    IN  IF name = <<>> \/ ~InList(name, w.menus[cat]) THEN w
        ELSE [w EXCEPT !.menus[cat] = RemoveFirst(@, name),
                       !.selected_entries[cat] = <<>>]

\* the menus MenuEditWindow._save hands to on_save: empty categories get
\* the built-in list
WinSaved(w, defaults) ==
    [c \in CatSet |-> IF w.menus[c] = <<>> THEN defaults[c] ELSE w.menus[c]]

-----------------------------------------------------------------------------
(* History of the visit to a day: which day is watched, the plan entry it  *)
(* had when it was selected, and how far the visit went:                   *)
(*   clean  selected, rows as loaded       dirty  a row was set since      *)
(*   left   another day selected after     back   selected again right     *)
(*          rows were set (edit dropped)          after that               *)
(* Any apply (add_slot, remove_slot, save) or month change ends the watch. *)

Idle == [phase |-> "idle", day |-> NoDay, entry |-> <<>>, lost |-> FALSE]

\* the rows a day shows for a stored entry and row counts
StoredRows(entry, slots) ==
    IF entry = <<>> THEN BuildRows(slots)
    ELSE FillRows(BuildRows(slots), slots, PartsSelect(entry))

VisitSelect(day) ==
    IF selected_day = day THEN Idle
    ELSE IF visit.phase = "dirty"
    THEN [phase |-> "left", day |-> visit.day, entry |-> visit.entry,
          lost  |-> category_vars # StoredRows(visit.entry, slots_per_category)]
    ELSE IF visit.phase = "left" /\ day = visit.day
    THEN [visit EXCEPT !.phase = "back"]
    ELSE [phase |-> "clean", day |-> day, entry |-> Entry(plans, _month_key, day),
          lost |-> FALSE]

VisitEdit ==
    IF visit.phase \in {"clean", "dirty"} THEN [visit EXCEPT !.phase = "dirty"]
    ELSE IF visit.phase \in {"left", "back"}
    THEN [phase |-> "dirty", day |-> selected_day,
          entry |-> Entry(plans, _month_key, selected_day), lost |-> FALSE]
    ELSE visit

-----------------------------------------------------------------------------
(* The application driven by its user.                                     *)

\* bound of the model: the "+" button is pressed only below this row count
MaxSlots == 2

\* the month whose day buttons the user clicks, and the days clicked
ClickMonth == <<2026, 1>>
ClickDays == {1, 2}
\* the values the user puts into a row
EditValues == {<<>>, W("a")}
\* the rows the user sets, and the categories whose +/- buttons are pressed
EditKeys == {<<"jusik", 0>>}
SlotCats == {"jusik"}
\* the months the user visits
NavMonths == {<<2025, 12>>, <<2026, 1>>}

\* data.json as the application finds it: nothing stored, or entries written
\* by an earlier version (a line of two segments, row counts below 1, a
\* configuration that names one category only)
StoredPlans ==
    [k \in NavMonths |->
        IF k = ClickMonth
        THEN [d \in {1, 2} |->
                IF d = 1 THEN W("x") \o CatSep \o W("y")
                ELSE W("p") \o ItemSep \o W("q") \o CatSep \o CatSep \o CatSep]
        ELSE [d \in {3} |-> W("r") \o CatSep \o CatSep \o CatSep]]
StoredDaySlots ==
    [k \in {ClickMonth} |->
        [d \in {1, 2} |->
            IF d = 1 THEN JObj([c \in {"jusik", "gita"} |->
                                  IF c = "jusik" THEN JNum(0) ELSE JNum(-2)])
            ELSE JObj([c \in {"jusik"} |-> JNum(2)])]]
StartStates ==
    { [plans |-> EmptyDict, day_slots |-> EmptyDict],
      [plans |-> StoredPlans, day_slots |-> StoredDaySlots] }

otherVars == <<fileVars, loadVars, codecVars, pc, win>>

\* MealPlannerApp.__init__ when data.json holds (ms, ps, ds) and "now" is y-m
Constructed(ms, ps, ds, y, m) ==
    /\ data_file = FileJson(save_all(ms, ps, ds))
    /\ menus_file = FileAbsent
    /\ plan_file = FileAbsent
    /\ DEFAULT_MENUS = DefaultMenus0
    /\ loaded = NotLoaded
    /\ LET r == load_all(data_file, menus_file, plan_file, DEFAULT_MENUS)
       IN  /\ r.status = "ok"
           /\ r.menus = save_all(ms, ps, ds).fields["menus"]
           /\ r.plans = save_all(ms, ps, ds).fields["plans"]
           /\ r.day_slots = save_all(ms, ps, ds).fields["day_slots"]
    /\ menus = ms
    /\ plans = ps
    /\ day_slots = ds
    /\ slots_per_category = DefaultSlots
    /\ current_year = y
    /\ current_month = m
    /\ selected_day = NoDay
    /\ category_vars = BuildRows(DefaultSlots)
    /\ day_buttons = MonthButtons(y, m, ps)
    /\ panel_shown = FALSE
    /\ ws = EmptyDict
    /\ line = <<>>
    /\ shown = EmptyDict
    /\ pc = "run"
    /\ win = WinClosed
    /\ visit = Idle

Init ==
    \E st \in StartStates, k \in NavMonths :
        Constructed(DefaultMenus0, st.plans, st.day_slots, k[1], k[2])

SelectDay(day) ==
    /\ _month_key = ClickMonth
    /\ day \in DOMAIN day_buttons
    /\ _select_day(day)
    /\ visit' = VisitSelect(day)
    /\ UNCHANGED <<ws, otherVars>>

EditRow(k, v) ==
    /\ panel_shown
    /\ k \in DOMAIN category_vars
    /\ category_vars[k] # v
    /\ SetRow(k, v)
    /\ visit' = VisitEdit
    /\ UNCHANGED <<ws, otherVars>>

AddSlot(cat) ==
    /\ slots_per_category[cat] < MaxSlots
    /\ _add_slot(cat)
    /\ visit' = Idle
    /\ UNCHANGED <<ws, otherVars>>

RemoveSlot(cat) ==
    /\ _remove_slot(cat)
    /\ visit' = Idle
    /\ UNCHANGED <<ws, otherVars>>

Save ==
    /\ _save
    /\ visit' = Idle
    /\ UNCHANGED <<ws, menus_file, plan_file, loadVars, codecVars, pc, win>>

PrevMonth(months) ==
    /\ (IF current_month = 1 THEN <<current_year - 1, 12>>
        ELSE <<current_year, current_month - 1>>) \in months
    /\ _prev_month
    /\ visit' = Idle
    /\ UNCHANGED <<ws, otherVars>>

NextMonth(months) ==
    /\ (IF current_month = 12 THEN <<current_year + 1, 1>>
        ELSE <<current_year, current_month + 1>>) \in months
    /\ _next_month
    /\ visit' = Idle
    /\ UNCHANGED <<ws, otherVars>>

Export ==
    /\ _export_excel
    /\ UNCHANGED <<visit, otherVars>>

winRestVars ==
    <<plans, day_slots, slots_per_category, current_year, current_month,
      selected_day, category_vars, day_buttons, panel_shown, ws, menus_file,
      plan_file, loadVars, codecVars, pc, visit>>

\* _open_menu_edit: the button stands in the right panel
OpenMenuEdit ==
    /\ panel_shown
    /\ ~win.open
    /\ win' = WinOpened(menus)
    /\ UNCHANGED <<menus, data_file, winRestVars>>

\* a name of the list is clicked
MenuSelect(cat, name) ==
    /\ win.open
    /\ InList(name, win.menus[cat])
    /\ win' = WinSelect(win, cat, name)
    /\ UNCHANGED <<menus, data_file, winRestVars>>

\* the add button, with text in the entry field
MenuAdd(cat, text) ==
    /\ win.open
    /\ win' = WinAdd(win, cat, text)
    /\ UNCHANGED <<menus, data_file, winRestVars>>

\* the delete button: enabled while an entry is selected
MenuDelete(cat) ==
    /\ win.open
    /\ win.selected_entries[cat] # <<>>
    /\ win' = WinDelete(win, cat)
    /\ UNCHANGED <<menus, data_file, winRestVars>>

\* the save button of the window: MenuEditWindow._save, then on_save
MenuSave ==
    /\ win.open
    /\ menus' = WinSaved(win, DEFAULT_MENUS)
    /\ data_file' = FileJson(save_all(menus', plans, day_slots))
    /\ win' = WinClosed
    /\ UNCHANGED winRestVars

\* the cancel button: destroy
MenuCancel ==
    /\ win.open
    /\ win' = WinClosed
    /\ UNCHANGED <<menus, data_file, winRestVars>>

Next ==
    \/ \E day \in ClickDays : SelectDay(day)
    \/ \E k \in EditKeys, v \in EditValues : EditRow(k, v)
    \/ \E c \in SlotCats : AddSlot(c)
    \/ \E c \in SlotCats : RemoveSlot(c)
    \/ Save
    \/ PrevMonth(NavMonths)
    \/ NextMonth(NavMonths)

Spec == Init /\ [][Next]_vars

\* the counts of a stored configuration are all present and at least 1
ConfigAtLeastOne(cfg) ==
    /\ IsDict(cfg)
    /\ \A c \in CatSet : c \in DOMAIN cfg.fields /\ cfg.fields[c].num >= 1

\* the configurations a step writes into day_slots: entries new or changed
WrittenConfigs ==
    {day_slots'[k][d] : <<k, d>> \in
        {kd \in UNION {{<<k, d>> : d \in DOMAIN day_slots'[k]} : k \in DOMAIN day_slots'} :
            \/ kd[1] \notin DOMAIN day_slots
            \/ kd[2] \notin DOMAIN day_slots[kd[1]]
            \/ day_slots[kd[1]][kd[2]] # day_slots'[kd[1]][kd[2]]}}

\* C4: whatever select_day, add_slot, remove_slot, month navigation and
\* commit do, and whatever configuration was stored (counts 0 or negative, a
\* category or the whole day missing), the row count of every category is
\* at least 1 and every configuration a step writes into day_slots has every
\* category count at least 1.
C4_SlotCountsAtLeastOne ==
    /\ [](\A c \in CatSet : slots_per_category[c] >= 1)
    /\ [][\A cfg \in WrittenConfigs : ConfigAtLeastOne(cfg)]_vars

\* a day stored with counts 0 and -2 is selected and its row counts have
\* been written back
C4_Witness ==
    /\ _month_key = ClickMonth
    /\ selected_day = 1
    /\ ClickMonth \in DOMAIN day_slots
    /\ 1 \in DOMAIN day_slots[ClickMonth]
    /\ day_slots[ClickMonth][1] # StoredDaySlots[ClickMonth][1]
    /\ day_slots[ClickMonth][1] = StoredConfig(slots_per_category)
    /\ 2 \in DOMAIN day_slots[ClickMonth]
    /\ day_slots[ClickMonth][2] = StoredDaySlots[ClickMonth][2]

\* C5: once day D was selected, its rows changed and another day selected
\* with no apply or commit in between, the plan entry of D is the one it had
\* before D was selected; and when D is selected again right after, its rows
\* show that stored entry.
C5_EditDiscardedOnDayChange ==
    /\ visit.phase \in {"left", "back"} =>
          Entry(plans, _month_key, visit.day) = visit.entry
    /\ visit.phase = "back" =>
          /\ selected_day = visit.day
          /\ category_vars = StoredRows(visit.entry, slots_per_category)

\* D had a stored entry, its rows were changed to something else, D2 was
\* selected and then D again
C5_Witness ==
    /\ visit.phase = "back"
    /\ visit.lost
    /\ visit.entry # <<>>
    /\ selected_day = visit.day

-----------------------------------------------------------------------------
(* The calendar over a long run of months: the application is started in  *)
(* any month of the range and the user pages through the months.           *)

\* bounds of the model: first and last year paged through
CalFirstYear == 1999
CalLastYear == 2101

CalMonths == (CalFirstYear..CalLastYear) \X (1..12)

InitCal ==
    \E k \in CalMonths :
        Constructed(DefaultMenus0, StoredPlans, StoredDaySlots, k[1], k[2])

NextCal ==
    \/ PrevMonth(CalMonths)
    \/ NextMonth(CalMonths)

SpecCal == InitCal /\ [][NextCal]_vars

\* The weekday of a date by Zeller's congruence, numbered as the header row
\* of the calendar numbers its columns: 0 is Sunday (il), 6 is Saturday (to).
HeaderColumnOf(y, m, d) ==
    LET mm == IF m < 3 THEN m + 12 ELSE m
        yy == IF m < 3 THEN y - 1 ELSE y
        K  == yy % 100
        J  == yy \div 100
        h  == (d + ((13 * (mm + 1)) \div 5) + K + (K \div 4) + (J \div 4) + 5 * J) % 7
    IN  (h + 6) % 7

\* the last grid row that holds a day button
LastButtonRow ==
    CHOOSE r \in {day_buttons[d].row : d \in DOMAIN day_buttons} :
        \A d \in DOMAIN day_buttons : day_buttons[d].row <= r

\* C1: the grid of the displayed month puts day 1 in row 1 under the header
\* that names its real weekday (column 0 is Sunday), the days follow one
\* another from there so that the cells before day 1 stay blank, and the
\* days take ceil((offset of day 1 + number of days) / 7) rows; February
\* 2026 has day 1 in the Sunday column and 4 rows.
C1_GridNamesRealWeekday ==
    LET off == HeaderColumnOf(current_year, current_month, 1)
        n   == DaysInMonth(current_year, current_month)
    IN  /\ DOMAIN day_buttons = 1..n
        /\ \A d \in 1..n :
              /\ day_buttons[d].row = 1 + ((off + d - 1) \div 7)
              /\ day_buttons[d].col = (off + d - 1) % 7
        /\ LastButtonRow = (off + n + 6) \div 7
        /\ (current_year = 2026 /\ current_month = 2) =>
              /\ day_buttons[1].row = 1
              /\ day_buttons[1].col = 0
              /\ LastButtonRow = 4

-----------------------------------------------------------------------------
(* The plan entry codec on its own: rows are encoded as _apply_meal does   *)
(* and the line is decoded as _select_day and _repopulate_rows_from_plan   *)
(* do; or a line found in the plan file is decoded.                        *)

\* bound of the model: the largest row count of the first category
CodecMaxSlots == 2

\* the row counts tried: the first category has 1..CodecMaxSlots rows
CodecSlots ==
    {[c \in CatSet |-> IF c = "jusik" THEN n ELSE 1] : n \in 1..CodecMaxSlots}

\* what a row may hold: nothing, a name, a name with a comma in it, a name
\* with the category separator in it
CodecValues ==
    {<<>>, W("a"), W("a") \o ItemSep \o W("b"), W("a") \o CatSep \o W("b")}

\* lines as a plan file may hold them: 1 to 5 segments, padded with blanks,
\* blank only, with empty segments
StoredLines ==
    { W("x"),
      W("x") \o CatSep \o W("y"),
      W("x") \o CatSep \o <<" ">> \o W("y"),
      W("x") \o <<" ">> \o CatSep \o W("y") \o CatSep \o W("z"),
      W("x") \o CatSep \o W("y") \o CatSep \o W("z"),
      W("p") \o ItemSep \o W("q") \o CatSep \o CatSep \o CatSep,
      W("a") \o CatSep \o W("b") \o CatSep \o W("c") \o CatSep \o W("d"),
      W("a") \o CatSep \o W("b") \o CatSep \o W("c") \o CatSep \o W("d")
          \o CatSep \o W("e"),
      <<" ", " ">>,
      CatSep,
      CatSep \o W("y") \o ItemSep \o <<" ">> \o W("z") }

NothingShown == [parts |-> <<>>, reparts |-> <<>>, rows |-> EmptyDict]

\* the rest of the program while the codec is exercised
CodecRest ==
    /\ menus = DefaultMenus0
    /\ plans = EmptyDict
    /\ day_slots = EmptyDict
    /\ current_year = ClickMonth[1]
    /\ current_month = ClickMonth[2]
    /\ selected_day = NoDay
    /\ day_buttons = MonthButtons(ClickMonth[1], ClickMonth[2], EmptyDict)
    /\ panel_shown = FALSE
    /\ ws = EmptyDict
    /\ data_file = FileAbsent
    /\ menus_file = FileAbsent
    /\ plan_file = FileAbsent
    /\ DEFAULT_MENUS = DefaultMenus0
    /\ loaded = NotLoaded
    /\ win = WinClosed
    /\ visit = Idle

InitCodec ==
    /\ CodecRest
    /\ shown = NothingShown
    /\ slots_per_category \in CodecSlots
    /\ \/ /\ pc = "rows"
          /\ category_vars \in [RowKeys(slots_per_category) -> CodecValues]
          /\ line = <<>>
       \/ /\ pc = "stored"
          /\ category_vars = BuildRows(slots_per_category)
          /\ line \in StoredLines

codecRestVars ==
    <<menus, plans, day_slots, slots_per_category, current_year, current_month,
      selected_day, category_vars, day_buttons, panel_shown, ws, fileVars,
      loadVars, win, visit>>

\* the line _apply_meal stores for the rows
Encode ==
    /\ pc = "rows"
    /\ line' = EncodeEntry(category_vars, slots_per_category)
    /\ pc' = "encoded"
    /\ UNCHANGED <<shown, codecRestVars>>

\* the segments both decoders read from the line, and the rows _select_day
\* shows for it
Decode ==
    /\ pc \in {"encoded", "stored"}
    /\ shown' =
          [parts   |-> IF line # <<>> THEN PartsSelect(line) ELSE <<>>,
           reparts |-> IF line # <<>> THEN PartsRepopulate(line) ELSE <<>>,
           rows    |-> StoredRows(line, slots_per_category)]
    /\ pc' = IF pc = "encoded" THEN "decoded" ELSE "read"
    /\ UNCHANGED <<line, codecRestVars>>

NextCodec == Encode \/ Decode

SpecCodec == InitCodec /\ [][NextCodec]_vars

\* every row is trimmed and every category has a row that is not blank
FullSelection(cv, slots) ==
    /\ \A k \in DOMAIN cv : Strip(cv[k]) = cv[k]
    /\ \A c \in CatSet : \E k \in DOMAIN cv : k[1] = c /\ cv[k] # <<>>

\* C2: rows in which every category holds at least one non-empty trimmed
\* item, encoded as _apply_meal does and decoded as _select_day does with
\* the same row counts, come back exactly as they were.
C2_RoundTrip ==
    (pc = "decoded" /\ FullSelection(category_vars, slots_per_category))
        => shown.rows = category_vars

\* C3 as stated: a non-empty line decodes to exactly 4 segments; with k < 4
\* segments between " | " these are one empty segment, the k stored segments
\* in order, and 3-k empty ones; with 4 or more they are the first 4 stored
\* segments; both decoders agree.
C3_SegmentsAsStored ==
    (pc \in {"decoded", "read"} /\ line # <<>>) =>
        LET segs == Split(line, CatSep)
            k    == Len(segs)
        IN  /\ Len(shown.parts) = 4
            /\ k < 4 =>
                  /\ shown.parts[1] = <<>>
                  /\ \A i \in 1..k : shown.parts[i + 1] = segs[i]
                  /\ \A i \in (k + 2)..4 : shown.parts[i] = <<>>
            /\ k >= 4 => \A i \in 1..4 : shown.parts[i] = segs[i]
            /\ shown.reparts = shown.parts

\* C3: a non-empty line decodes to exactly 4 segments; with k < 4 segments
\* between " | " these are one empty segment, the k stored segments in
\* order, each trimmed of surrounding white space, and 3-k empty ones; with
\* 4 or more they are the first 4 stored segments, each trimmed; the decoder
\* of _select_day and the one of _repopulate_rows_from_plan agree.
C3_SegmentsTrimmed ==
    (pc \in {"decoded", "read"} /\ line # <<>>) =>
        LET segs == Split(line, CatSep)
            k    == Len(segs)
        IN  /\ Len(shown.parts) = 4
            /\ k < 4 =>
                  /\ shown.parts[1] = <<>>
                  /\ \A i \in 1..k : shown.parts[i + 1] = Strip(segs[i])
                  /\ \A i \in (k + 2)..4 : shown.parts[i] = <<>>
            /\ k >= 4 => \A i \in 1..4 : shown.parts[i] = Strip(segs[i])
            /\ shown.reparts = shown.parts

\* a stored line of two segments, the second padded, has been decoded
C3_Witness ==
    /\ pc = "read"
    /\ Len(Split(line, CatSep)) = 2
    /\ Split(line, CatSep)[2] # Strip(Split(line, CatSep)[2])
    /\ shown.parts = << <<>>, W("x"), W("y"), <<>> >>

-----------------------------------------------------------------------------
(* load_all over the states of the three files.                            *)

\* catalogs found in files: complete, with an empty and two missing
\* categories, empty
Catalog(name) == JObj([c \in CatSet |-> JNames(<<W(name)>>)])
PartialCatalog(name) ==
    JObj([c \in {"jusik", "guk_soup"} |->
            IF c = "jusik" THEN JNames(<<W(name)>>) ELSE JList(<<>>)])
NoCatalog == JObj(EmptyDict)

\* plans and row counts found in files
FilePlans(txt) == JObj([k \in {ClickMonth} |-> JObj([d \in {1} |-> JStr(W(txt))])])
FileDaySlots ==
    JObj([k \in {ClickMonth} |->
            JObj([d \in {1} |-> JObj([c \in {"jusik"} |-> JNum(2)])])])

\* a data.json document with all three fields
Doc(ms, ps, ds) ==
    JObj([f \in {"menus", "plans", "day_slots"} |->
            CASE f = "menus" -> ms [] f = "plans" -> ps [] f = "day_slots" -> ds])

\* documents data.json may hold: written by save_all, with a partial, an
\* empty, a null, a missing catalog, a catalog or row counts of the wrong
\* type, an empty object, and values that are no object
DataDocs ==
    { Doc(Catalog("m"), FilePlans("x"), FileDaySlots),
      Doc(PartialCatalog("m"), FilePlans("x"), FileDaySlots),
      Doc(NoCatalog, FilePlans("x"), FileDaySlots),
      Doc(JNull, FilePlans("x"), FileDaySlots),
      Doc(JStr(W("m")), FilePlans("x"), FileDaySlots),
      Doc(Catalog("m"), FilePlans("x"), JList(<<>>)),
      JObj([f \in {"plans"} |-> FilePlans("x")]),
      JObj([f \in {"menus"} |-> Catalog("m")]),
      JObj(EmptyDict),
      JList(<<>>),
      JNum(1) }

DataFiles ==
    {FileAbsent, FileUnreadable, FileMalformed} \cup {FileJson(d) : d \in DataDocs}

MenusFiles ==
    {FileAbsent, FileUnreadable, FileMalformed}
        \cup {FileJson(d) : d \in {Catalog("l"), PartialCatalog("l"), JList(<<>>)}}

PlanFiles ==
    {FileAbsent, FileMalformed}
        \cup {FileJson(d) : d \in
                { JObj([f \in {"plans"} |-> FilePlans("y")]),
                  JObj(EmptyDict),
                  JList(<<>>) }}

\* the categories whose returned list a caller appends to
EditCats == {"jusik", "gita"}

InitLoad ==
    /\ data_file \in DataFiles
    /\ menus_file \in MenusFiles
    /\ plan_file \in PlanFiles
    /\ DEFAULT_MENUS = DefaultMenus0
    /\ loaded = NotLoaded
    /\ pc = "start"
    /\ menus = DefaultMenus0
    /\ plans = EmptyDict
    /\ day_slots = EmptyDict
    /\ slots_per_category = DefaultSlots
    /\ current_year = ClickMonth[1]
    /\ current_month = ClickMonth[2]
    /\ selected_day = NoDay
    /\ category_vars = BuildRows(DefaultSlots)
    /\ day_buttons = MonthButtons(ClickMonth[1], ClickMonth[2], EmptyDict)
    /\ panel_shown = FALSE
    /\ ws = EmptyDict
    /\ line = <<>>
    /\ shown = EmptyDict
    /\ win = WinClosed
    /\ visit = Idle

\* self.menus, self.plans, self.day_slots = load_all()
LoadAll ==
    /\ pc = "start"
    /\ loaded' = load_all(data_file, menus_file, plan_file, DEFAULT_MENUS)
    /\ pc' = IF loaded'.status = "raise" THEN "raised" ELSE "loaded"
    /\ UNCHANGED <<appVars, ws, fileVars, DEFAULT_MENUS, codecVars, win, visit>>

\* the caller appends a name to a list of the returned catalog, in place: a
\* list that is the built-in list itself changes the built-in defaults
MutateResult(c) ==
    /\ pc = "loaded"
    /\ IsDict(loaded.menus)
    /\ c \in DOMAIN loaded.menus.fields
    /\ loaded.menus.fields[c].t = "list"
    /\ loaded' = [loaded EXCEPT !.menus.fields[c].items = Append(@, JStr(W("new")))]
    /\ DEFAULT_MENUS' =
          IF c \in loaded.shared
          THEN [DEFAULT_MENUS EXCEPT ![c] = Append(@, W("new"))]
          ELSE DEFAULT_MENUS
    /\ pc' = "edited"
    /\ UNCHANGED <<appVars, ws, fileVars, codecVars, win, visit>>

NextLoad ==
    \/ LoadAll
    \/ \E c \in EditCats : MutateResult(c)

SpecLoad == InitLoad /\ [][NextLoad]_vars

\* a catalog completed by the built-in list for every category that is
\* missing or empty
Completed(m) ==
    JObj([c \in (DOMAIN m) \cup CatSet |->
            IF c \in CatSet /\ (c \notin DOMAIN m \/ ~Truthy(m[c]))
            THEN JNames(DefaultMenus0[c])
            ELSE m[c]])

\* C6: whatever the three files are (absent, unreadable, malformed, JSON of
\* any shape), load_all returns a state and raises nothing.
C6_LoadNeverRaises ==
    pc # "start" => (loaded.status = "ok" /\ pc # "raised")

\* C7: when data.json exists and holds a JSON object, load_all returns the
\* plans and row counts of that file and its catalog completed by the
\* built-in lists, whatever the two legacy files hold.
C7_ConsolidatedFirst ==
    (pc \in {"loaded", "raised"} /\ data_file.kind = "json" /\ IsDict(data_file.doc)) =>
        LET f  == data_file.doc.fields
            m  == Get(f, "menus", JNull)
            d0 == Get(f, "day_slots", JObj(EmptyDict))
        IN  /\ loaded.status = "ok"
            /\ loaded.plans = Get(f, "plans", JObj(EmptyDict))
            /\ loaded.day_slots = (IF IsDict(d0) THEN d0 ELSE JObj(EmptyDict))
            /\ loaded.menus = Completed(IF IsDict(m) THEN m.fields ELSE EmptyDict)
            /\ loaded = load_all(data_file, FileAbsent, FileAbsent, DefaultMenus0)

\* C8: when data.json is missing and menus.json and meal_plan.json each
\* hold a JSON object, load_all returns the legacy catalog with every
\* missing or empty category replaced by its built-in list and the other
\* categories as stored, the plans of meal_plan.json, and no row counts.
C8_LegacyFallback ==
    (/\ pc = "loaded"
     /\ data_file = FileAbsent
     /\ menus_file.kind = "json" /\ IsDict(menus_file.doc)
     /\ plan_file.kind = "json" /\ IsDict(plan_file.doc)) =>
        /\ loaded.status = "ok"
        /\ loaded.menus = Completed(menus_file.doc.fields)
        /\ loaded.plans = Get(plan_file.doc.fields, "plans", JObj(EmptyDict))
        /\ loaded.day_slots = JObj(EmptyDict)

\* data.json is missing, menus.json has one category filled, one empty and
\* two missing, meal_plan.json has plans; load_all has returned
C8_Witness ==
    /\ pc = "loaded"
    /\ data_file = FileAbsent
    /\ menus_file = FileJson(PartialCatalog("l"))
    /\ plan_file = FileJson(JObj([f \in {"plans"} |-> FilePlans("y")]))
    /\ loaded.menus.fields["jusik"] = JNames(<<W("l")>>)
    /\ loaded.menus.fields["guk_soup"] = JNames(DefaultMenus0["guk_soup"])

\* C9: when none of the three files exists, load_all returns the built-in
\* catalog for the 4 categories, no plans and no row counts; and appending
\* to a list of the returned catalog leaves the built-in defaults as they
\* were.
C9_DefaultsCopied ==
    (data_file = FileAbsent /\ menus_file = FileAbsent /\ plan_file = FileAbsent) =>
        /\ pc # "raised"
        /\ pc = "loaded" =>
              /\ loaded.status = "ok"
              /\ loaded.menus = JObj([c \in CatSet |-> JNames(DefaultMenus0[c])])
              /\ loaded.plans = JObj(EmptyDict)
              /\ loaded.day_slots = JObj(EmptyDict)
        /\ DEFAULT_MENUS = DefaultMenus0

\* no file exists, load_all has returned and a list of its catalog has been
\* appended to
C9_Witness ==
    /\ data_file = FileAbsent /\ menus_file = FileAbsent /\ plan_file = FileAbsent
    /\ pc = "edited"
    /\ Len(loaded.menus.fields["jusik"].items) = Len(DefaultMenus0["jusik"]) + 1

-----------------------------------------------------------------------------
(* Export: the application is started on some month of a year with some    *)
(* plans; the user pages through the year and exports.                     *)

ExportMonths == {<<ClickMonth[1], m>> : m \in 1..12}

\* plans with a day of 5 items, of 7 items, of 2 items in a legacy line, a
\* blank line, empty segments, and days 29 to 31
FivePlan ==
    [k \in ExportMonths |->
        [d \in {3, 4} |->
            IF d = 3
            THEN W("a") \o ItemSep \o W("b") \o CatSep \o W("c") \o CatSep
                     \o W("d") \o ItemSep \o W("e") \o CatSep
            ELSE W("x")]]
MixedPlan ==
    [k \in ExportMonths |->
        [d \in {1, 15, 16, 28, 31} |->
            CASE d = 1  -> W("x") \o CatSep \o W("y")
              [] d = 15 -> W("a") \o ItemSep \o W("b") \o CatSep \o W("c") \o ItemSep
                               \o W("d") \o CatSep \o W("e") \o ItemSep \o W("f")
                               \o CatSep \o W("g")
              [] d = 16 -> <<" ", " ">>
              [] d = 28 -> W("p") \o ItemSep \o W("q") \o CatSep \o CatSep \o CatSep
              [] d = 31 -> CatSep \o W("s") \o ItemSep \o <<" ">> \o ItemSep \o W("t")]]
ExportPlans == {EmptyDict, FivePlan, MixedPlan}

InitExport ==
    \E ps \in ExportPlans, k \in ExportMonths :
        Constructed(DefaultMenus0, ps, EmptyDict, k[1], k[2])

NextExport ==
    \/ Export
    \/ PrevMonth(ExportMonths)
    \/ NextMonth(ExportMonths)

SpecExport == InitExport /\ [][NextExport]_vars

\* the worksheet holds the export of the month now displayed
SheetOfMonth ==
    /\ ws # EmptyDict
    /\ ws[<<1, 4>>].num = current_year * 100 + current_month

\* the day of column c (1..7) in week w (0..) of the displayed month
SheetDay(w, c) ==
    LET mr  == monthrange(current_year, current_month)
        pos == 7 * w + (c - 1)
    IN  IF pos >= mr[1] /\ pos < mr[1] + mr[2] THEN pos - mr[1] + 1 ELSE NoDay

\* the flattened items of that day
SheetItems(w, c) ==
    IF SheetDay(w, c) = NoDay THEN <<>>
    ELSE plan_to_items(Entry(plans, _month_key, SheetDay(w, c)))

\* max(3, m) for week w
SheetMenuRows(w) ==
    LET m == CHOOSE n \in {Len(SheetItems(w, c)) : c \in 1..7} :
                 \A c \in 1..7 : Len(SheetItems(w, c)) <= n
    IN  IF m > 3 THEN m ELSE 3

\* the weeks of the displayed month
SheetWeeks ==
    LET mr == monthrange(current_year, current_month)
    IN  (mr[1] + mr[2] + 6) \div 7

\* C10: in the exported sheet every week is one date row followed by
\* max(3, m) menu rows, m the largest number of flattened items of a day of
\* the week; menu row i of a day holds its i-th item, or is blank when the
\* day has fewer items or is outside the month; the blocks follow one
\* another from row 3 with no gap and no overlap (so a week with a day of 5
\* items has 5 menu rows).
C10_WeekBlocks ==
    SheetOfMonth =>
        LET nw == SheetWeeks
            base[w \in 0..nw] ==
                IF w = 0 THEN 3 ELSE base[w - 1] + 1 + SheetMenuRows(w - 1)
        IN  /\ DOMAIN ws = (1..(base[nw] - 1)) \X (1..7)
            /\ \A w \in 0..(nw - 1), c \in 1..7 :
                  /\ ws[<<base[w], c>>] = Cell(SheetDay(w, c), <<>>)
                  /\ \A i \in 1..SheetMenuRows(w) :
                        ws[<<base[w] + i, c>>] =
                            IF i <= Len(SheetItems(w, c))
                            THEN Cell(0, SheetItems(w, c)[i])
                            ELSE Blank

\* the sheet of the displayed month has a week with a day of 5 items, next
\* to a day of the month with fewer, and a later week
C10_Witness ==
    /\ SheetOfMonth
    /\ \E w \in 0..(SheetWeeks - 2) :
          /\ SheetMenuRows(w) = 5
          /\ \E c \in 1..7 : Len(SheetItems(w, c)) = 5
          /\ \E c \in 1..7 : SheetDay(w, c) # NoDay /\ Len(SheetItems(w, c)) = 1

-----------------------------------------------------------------------------
(* Commit and the effects of the slot handlers, in the application driven  *)
(* by its user (Spec).                                                     *)

\* the in-memory state as the JSON values a load returns
JsonMenus(ms) == JObj([c \in DOMAIN ms |-> JNames(ms[c])])
JsonPlans(ps) ==
    JObj([k \in DOMAIN ps |-> JObj([d \in DOMAIN ps[k] |-> JStr(ps[k][d])])])
JsonDaySlots(ds) == JObj([k \in DOMAIN ds |-> JObj(ds[k])])

\* C11: a commit with day D selected leaves D's plan entry equal to the
\* encoding of the rows, data.json equal to the in-memory state (catalog,
\* plans, row counts), and a load performed afterwards returns that state.
C11_CommitRoundTrip ==
    [][(_save /\ selected_day # NoDay) =>
        /\ Entry(plans', _month_key', selected_day') =
               EncodeEntry(category_vars', slots_per_category')
        /\ data_file' = FileJson(Doc(JsonMenus(menus'), JsonPlans(plans'),
                                     JsonDaySlots(day_slots')))
        /\ LET r == load_all(data_file', menus_file', plan_file', DEFAULT_MENUS')
           IN  /\ r.status = "ok"
               /\ r.menus = JsonMenus(menus')
               /\ r.plans = JsonPlans(plans')
               /\ r.day_slots = JsonDaySlots(day_slots')]_vars

\* day 1, stored as a legacy line with row counts below 1, is selected, its
\* first row was set, and data.json holds the state with the new entry
C11_Witness ==
    /\ _month_key = ClickMonth
    /\ selected_day = 1
    /\ category_vars[<<"jusik", 0>>] = W("a")
    /\ Entry(plans, ClickMonth, 1) = EncodeEntry(category_vars, slots_per_category)
    /\ Entry(plans, ClickMonth, 1) # Entry(StoredPlans, ClickMonth, 1)
    /\ ClickMonth \in DOMAIN day_slots
    /\ Get(day_slots[ClickMonth], 1, NoConfig) = StoredConfig(slots_per_category)
    /\ data_file = FileJson(Doc(JsonMenus(menus), JsonPlans(plans),
                                JsonDaySlots(day_slots)))

-----------------------------------------------------------------------------
(* Every operation of the user interface: the handlers of the main window, *)
(* the export, and the modal menu edit window (while it is open the main   *)
(* window takes no input).                                                 *)

\* the days clicked, the categories edited in the window, the text typed
\* into its entry field and the names clicked in its list
OpsDays == {2}
MenuCats == {"jusik"}
MenuTexts == {<<" ">> \o W("n")}
MenuNames == {W("bap")}

InitOps ==
    Constructed(DefaultMenus0, StoredPlans, StoredDaySlots,
                ClickMonth[1], ClickMonth[2])

NextOps ==
    \/ ~win.open /\ \E day \in OpsDays : SelectDay(day)
    \/ ~win.open /\ \E k \in EditKeys, v \in EditValues : EditRow(k, v)
    \/ ~win.open /\ \E c \in SlotCats : AddSlot(c)
    \/ ~win.open /\ \E c \in SlotCats : RemoveSlot(c)
    \/ ~win.open /\ Save
    \/ ~win.open /\ PrevMonth(NavMonths)
    \/ ~win.open /\ NextMonth(NavMonths)
    \/ ~win.open /\ Export
    \/ OpenMenuEdit
    \/ \E c \in MenuCats, n \in MenuNames : MenuSelect(c, n)
    \/ \E c \in MenuCats, t \in MenuTexts : MenuAdd(c, t)
    \/ \E c \in MenuCats : MenuDelete(c)
    \/ MenuSave
    \/ MenuCancel

SpecOps == InitOps /\ [][NextOps]_vars

\* _apply_meal on its own
ApplyStep ==
    /\ plans' = AppliedPlans(plans, category_vars, slots_per_category,
                             _month_key, selected_day)
    /\ day_buttons' = AppliedButtons(day_buttons, category_vars,
                                     slots_per_category, selected_day)
    /\ UNCHANGED <<menus, day_slots, slots_per_category, current_year,
                   current_month, selected_day, category_vars, panel_shown>>

\* C12 as stated: a step that changes a plan entry is an apply or a commit.
C12_OnlyApplyOrCommit ==
    [][plans' # plans => (ApplyStep \/ _save)]_vars

\* C12: a step that changes a plan entry is a commit, an add_slot or a
\* remove_slot (each applies the rows first); selecting a day, setting a
\* row, changing the month, the export and the menu edit window change no
\* plan entry.
C12_OnlyCommitOrSlotChange ==
    [][plans' # plans =>
          (_save \/ \E c \in CatSet : _add_slot(c) \/ _remove_slot(c))]_vars

\* a row of day 2 was set and its row count changed: the entry of day 2 is
\* the encoding of the new rows while data.json still holds the plans as
\* loaded
C12_Witness ==
    /\ selected_day = 2
    /\ slots_per_category["jusik"] = 1
    /\ Entry(plans, ClickMonth, 2) # Entry(StoredPlans, ClickMonth, 2)
    /\ Entry(plans, ClickMonth, 2) = EncodeEntry(category_vars, slots_per_category)
    /\ data_file.doc.fields["plans"] = JsonPlans(StoredPlans)

-----------------------------------------------------------------------------
(* remove_slot and the locality of slot changes (Spec).                    *)

\* the items a plan entry holds for a category
EntryItems(entry, c) ==
    IF entry = <<>> THEN <<>>
    ELSE NonEmptyStripped(Split(PartsSelect(entry)[CatIndex(c)], ItemSep))

\* C13: when remove_slot lowers the row count of a category whose rows all
\* hold an item, the plan entry of the selected day and its rows then hold,
\* for that category, the first items in order, as many as the new row
\* count stored for the day, which is at least 1.
C13_RemoveDropsOverflow ==
    [][\A c \in CatSet :
          (/\ _remove_slot(c)
           /\ selected_day # NoDay
           /\ slots_per_category[c] > 1
           /\ \A k \in DOMAIN category_vars :
                 k[1] = c => Strip(category_vars[k]) # <<>>) =>
              LET n      == slots_per_category'[c]
                  before == CategoryVals(category_vars, slots_per_category, c)
                  entry  == Entry(plans', _month_key, selected_day)
                  cfg    == day_slots'[_month_key][selected_day]
              IN  /\ n = slots_per_category[c] - 1
                  /\ n >= 1
                  /\ cfg.fields[c].num = n
                  /\ {k \in DOMAIN category_vars' : k[1] = c} =
                         {<<c, i>> : i \in 0..(n - 1)}
                  /\ \A i \in 0..(n - 1) : category_vars'[<<c, i>>] = before[i + 1]
                  /\ Len(EntryItems(entry, c)) <= n
                  /\ EntryItems(entry, c) = Take(before, n)]_vars

\* the places (month, day) of a mapping
Places(m) == UNION {{<<k, d>> : d \in DOMAIN m[k]} : k \in DOMAIN m}

\* the places where two mappings differ
ChangedPlaces(m1, m2) ==
    {kd \in Places(m1) \cup Places(m2) :
        \/ kd \notin Places(m1)
        \/ kd \notin Places(m2)
        \/ m1[kd[1]][kd[2]] # m2[kd[1]][kd[2]]}

\* only the selected day of the displayed month differs between m1 and m2,
\* and nothing at all when no day is selected
LocalChange(m1, m2) ==
    /\ ChangedPlaces(m1, m2) \subseteq
          (IF selected_day = NoDay THEN {} ELSE {<<_month_key, selected_day>>})
    /\ DOMAIN m1 \subseteq DOMAIN m2
    /\ DOMAIN m2 \subseteq
          (DOMAIN m1) \cup (IF selected_day = NoDay THEN {} ELSE {_month_key})

\* C15: add_slot and remove_slot with day D of month M selected change the
\* row counts only at (M, D) and the plans only at (M, D); with no day
\* selected they change neither mapping.
C15_SlotChangeLocal ==
    [][(\E c \in CatSet : _add_slot(c) \/ _remove_slot(c)) =>
          (LocalChange(plans, plans') /\ LocalChange(day_slots, day_slots'))]_vars

\* a row was added to day 1: its row counts and its entry are new, those of
\* day 2 and of the other month are as loaded, nothing was saved
C15_Witness ==
    /\ _month_key = ClickMonth
    /\ selected_day = 1
    /\ slots_per_category["jusik"] = 2
    /\ ChangedPlaces(StoredPlans, plans) = {<<ClickMonth, 1>>}
    /\ ChangedPlaces(StoredDaySlots, day_slots) = {<<ClickMonth, 1>>}
    /\ day_slots[ClickMonth][1] = StoredConfig(slots_per_category)
    /\ data_file.doc.fields["plans"] = JsonPlans(StoredPlans)

-----------------------------------------------------------------------------
(* The menu catalog: the application is started on a data.json written by  *)
(* save_all, a day is selected and the catalog is edited in the window.    *)

\* a catalog in which the first category holds a name twice
DupMenus ==
    [c \in CatSet |-> IF c = "jusik" THEN <<W("m"), W("m")>> ELSE <<W("k")>>]

\* the catalogs data.json holds at the start
MenuStarts == {DefaultMenus0, DupMenus}

\* the category edited, the text typed into the entry field (blank, padded,
\* plain) and the names clicked
CatalogCats == {"jusik"}
CatalogTexts == {<<" ">>, <<" ">> \o W("n") \o <<" ">>, W("m")}
CatalogNames == {W("bap"), W("n"), W("m")}

InitMenu ==
    \E ms \in MenuStarts :
        Constructed(ms, EmptyDict, EmptyDict, ClickMonth[1], ClickMonth[2])

NextMenu ==
    \/ ~win.open /\ \E day \in OpsDays : SelectDay(day)
    \/ OpenMenuEdit
    \/ \E c \in CatalogCats, n \in CatalogNames : MenuSelect(c, n)
    \/ \E c \in CatalogCats, t \in CatalogTexts : MenuAdd(c, t)
    \/ \E c \in CatalogCats : MenuDelete(c)
    \/ MenuSave
    \/ MenuCancel

SpecMenu == InitMenu /\ [][NextMenu]_vars

\* no name stands twice in the list
NoRepeat(names) ==
    \A i, j \in 1..Len(names) : names[i] = names[j] => i = j

\* C14: after a load from a well-formed file and any sequence of menu edit
\* add, delete, save and cancel operations, no category of the in-memory
\* catalog holds the same name twice.
C14_NoDuplicateNames ==
    \A c \in DOMAIN menus : NoRepeat(menus[c])

=============================================================================
